---- MODULE Spec2Model ----
(***************************************************************************)
(* Financial Decision Simulation Model (src/app.py).                       *)
(*                                                                         *)
(* Two specifications over one set of variables:                           *)
(*   SpecGen  one call simulate_df(base_sales, gr, cost_pct, tax_pct,      *)
(*            n_runs) run trial by trial, followed by the metrics of       *)
(*            run_and_save_once (mean/max/min/std of the Profit column);   *)
(*   SpecApp  the Streamlit script: session state, the Start/Stop          *)
(*            buttons, the auto-refresh loop, the Run Once branch and      *)
(*            run_and_save_once with the sensitivity sweep of              *)
(*            save_chart_images.                                           *)
(*                                                                         *)
(* Numbers.  Python floats are modelled by exact fixed-point integers:     *)
(*   rates (growth, cost, tax, the uniform draws) are in 1/Scale           *)
(*     (percent: 0.05 is 5, 0.40 is 40);                                   *)
(*   money is in units of SalesUnit rupees (500000 Rs. is 50);             *)
(*   a row stores Revenue * Scale, Cost * Scale^2, Profit * Scale^3, so    *)
(*     that every product of the code is an exact integer.                 *)
(* Floating-point rounding is not modelled.  np.random.uniform(lo, hi) is  *)
(* a nondeterministic choice among DrawSteps+1 points of [lo, hi], the     *)
(* two ends included.                                                      *)
(***************************************************************************)
EXTENDS Integers, Sequences, FiniteSets, TLC

\* ---------------------------------------------------------------- bounds

\* largest n_runs handed to simulate_df in SpecGen
MaxRuns == 2
\* np.random.uniform draws one of DrawSteps+1 points of its interval
DrawSteps == 2
\* the position in the cycle of numpy's global generator is kept modulo this
RngPeriod == 7

\* ------------------------------------------------------------- constants

\* fixed-point denominator of every rate: 1/100
Scale == 100
\* rupees per money unit (the step of the Base Sales input)
SalesUnit == 10000
\* the half-width 0.05 of the cost-ratio window
CostSpread == 5
\* pandas' Series.std default: delta degrees of freedom
DDOF == 1
\* the trial count of each sensitivity-sweep call
SweepRuns == 200
\* np.linspace(0.05, 0.25, 5)
SweepLo == 5
SweepHi == 25
SweepNum == 5

VARIABLES
    \* ---- the module-level names of the script (sidebar widgets)
    sales,          \* Base Sales, in SalesUnit rupees
    growth_rate,    \* Growth Rate slider, percent
    cost_pct,       \* Cost % slider, percent
    tax_pct,        \* Tax % slider, percent
    runs,           \* Simulation Runs slider
    auto_refresh,   \* Enable Auto Refresh checkbox
    \* ---- st.session_state: a function whose domain is {} or {"stop_flag"}
    session_state,
    \* ---- numpy's global RandomState: variates drawn so far, mod RngPeriod
    rng,
    \* ---- one simulate_df call (SpecGen)
    args,           \* [base_sales, gr, cost_pct, tax_pct, n_runs]
    rows,           \* the local list rows
    draws,          \* the values np.random.uniform returned, per trial
    df,             \* the DataFrame returned
    metrics,        \* run_and_save_once's metrics of df
    error,          \* the exception raised, "none" when none
    gpc,            \* position in the call
    \* ---- one execution of the script (SpecApp)
    pc,             \* position in the script
    clicked,        \* the button whose click started this execution
    calls,          \* the simulate_df calls of the current run_and_save_once
    df_sim,         \* run_and_save_once's df_sim (the main run's call)
    avg_profits,    \* save_chart_images' avg_profits
    caller,         \* who called the current run_and_save_once
    written         \* the files the current run_and_save_once has written

globalVars == <<sales, growth_rate, cost_pct, tax_pct, runs, auto_refresh,
                session_state>>
genVars == <<args, rows, draws, df, metrics, error, gpc>>
appVars == <<pc, clicked, caller, calls, df_sim, avg_profits, written>>
vars == <<sales, growth_rate, cost_pct, tax_pct, runs, auto_refresh,
          session_state, rng, args, rows, draws, df, metrics, error, gpc,
          pc, clicked, caller, calls, df_sim, avg_profits, written>>

\* ------------------------------------------------------- sidebar widgets

\* st.sidebar.number_input("Base Sales", min 10000, max 50000000, step 10000)
SalesValues == {1, 50}
\* st.sidebar.slider("Growth Rate (%)", 0.0, 0.5, 0.10)
GrowthValues == {0, 10}
\* st.sidebar.slider("Cost % of Revenue", 0.05, 0.9, 0.40)
CostValues == {5, 40}
\* st.sidebar.slider("Tax %", 0.0, 0.5, 0.20)
TaxValues == {0, 20}
\* st.sidebar.slider("Simulation Runs", 50, 5000, 300)
RunsValues == {50, 300}

\* ------------------------------------------------- the sampling engine

\* np.random.uniform(lo, hi): the points the draw may return
Uniform(lo, hi) == {lo + (k * (hi - lo)) \div DrawSteps : k \in 0..DrawSteps}

\* rev = base_sales * (1 + u1)                        (times Scale)
\* (faulty variant: the perturbation applied twice)
RevenueDoubleGrowth(base, u1) == base * (Scale + 2 * u1)
Revenue(base, u1) == base * (Scale + u1)

\* the interval of the cost ratio: (cost_pct - 0.05, cost_pct + 0.05)
\* (faulty variant: a negative lower end clamped to 0)
CostWindowClamped(c) == Uniform(IF c - CostSpread < 0 THEN 0 ELSE c - CostSpread, c + CostSpread)
CostWindow(c) == Uniform(c - CostSpread, c + CostSpread)

\* cost = rev * u2                                    (times Scale^2)
Cost(rev, u2) == rev * u2

\* profit = (rev - cost) * (1 - tax_pct)              (times Scale^3)
\* (faulty variant: the tax taken off the revenue only)
ProfitTaxOnRevenue(rev, cost, tax) == rev * Scale * (Scale - tax) - cost * Scale
Profit(rev, cost, tax) == (rev * Scale - cost) * (Scale - tax)

\* rows.append((rev, cost, profit))
Row(base, u1, u2, tax) ==
    LET rev == Revenue(base, u1)
        cost == Cost(rev, u2)
    IN [Revenue |-> rev, Cost |-> cost, Profit |-> Profit(rev, cost, tax)]

\* len(range(n)): the number of iterations of "for _ in range(n)"
\* (faulty variant: one iteration short)
RangeLenOffByOne(n) == IF n > 1 THEN n - 1 ELSE 0
RangeLen(n) == IF n > 0 THEN n ELSE 0

\* ------------------------------------------------------------ statistics

NaN == [nan |-> TRUE, num |-> 0, den |-> 1]
Num(n, d) == [nan |-> FALSE, num |-> n, den |-> d]

RECURSIVE SumProfit(_)
SumProfit(s) == IF s = <<>> THEN 0 ELSE s[1].Profit + SumProfit(Tail(s))

RECURSIVE MaxProfit(_)
MaxProfit(s) ==
    IF Len(s) = 1 THEN s[1].Profit
    ELSE LET m == MaxProfit(Tail(s)) IN IF s[1].Profit > m THEN s[1].Profit ELSE m

RECURSIVE MinProfit(_)
MinProfit(s) ==
    IF Len(s) = 1 THEN s[1].Profit
    ELSE LET m == MinProfit(Tail(s)) IN IF s[1].Profit < m THEN s[1].Profit ELSE m

\* df["Profit"].mean(): sum / count, NaN on an empty column
Mean(s) == IF Len(s) = 0 THEN NaN ELSE Num(SumProfit(s), Len(s))
\* df["Profit"].max() and .min(): NaN on an empty column
Max(s) == IF Len(s) = 0 THEN NaN ELSE Num(MaxProfit(s), 1)
Min(s) == IF Len(s) = 0 THEN NaN ELSE Num(MinProfit(s), 1)
\* df["Profit"].std(): the divisor is count - ddof; NaN when that is <= 0.
\* Only whether the value is defined, and its divisor, are kept: the
\* magnitude (a square root) is read by no property here.
\* (faulty variant: the population deviation, ddof = 0)
StdPopulation(s) == [nan |-> Len(s) <= 0, divisor |-> Len(s)]
Std(s) == [nan |-> Len(s) - DDOF <= 0, divisor |-> Len(s) - DDOF]

\* metrics = {'avg': ..., 'max': ..., 'min': ..., 'std': ...}
Metrics(s) == [avg |-> Mean(s), max |-> Max(s), min |-> Min(s), std |-> Std(s)]

NoMetrics == [avg |-> NaN, max |-> NaN, min |-> NaN, std |-> [nan |-> TRUE, divisor |-> 0]]

\* ------------------------------------------------------ shared helpers

\* the global generator after n more variates
RngAfter(r, n) == (r + n) % RngPeriod

\* st.session_state.stop_flag (read only where the key exists)
StopFlag == session_state["stop_flag"]

NoCall == [id |-> 0, base_sales |-> 0, gr |-> 0, cost_pct |-> 0, tax_pct |-> 0,
           n_runs |-> 0, len |-> 0]

\* the values of the variables a specification does not use
GenIdle ==
    /\ args = [base_sales |-> 0, gr |-> 0, cost_pct |-> 0, tax_pct |-> 0, n_runs |-> 0]
    /\ rows = <<>> /\ draws = <<>> /\ df = <<>>
    /\ metrics = NoMetrics /\ error = "none" /\ gpc = "idle"
AppIdle ==
    /\ pc = "idle" /\ clicked = "none" /\ caller = "none"
    /\ calls = <<>> /\ df_sim = NoCall /\ avg_profits = <<>> /\ written = {}

\* =====================================================================
\* SpecGen: simulate_df(base_sales, gr, cost_pct, tax_pct, n_runs), then
\* the metrics of its result
\* =====================================================================

\* the arguments a caller may pass (the function itself checks none)
GenArgs ==
    [base_sales : SalesValues, gr : GrowthValues, cost_pct : {2, 40},
     tax_pct : TaxValues, n_runs : -1..MaxRuns]

InitGen ==
    /\ sales \in SalesValues /\ growth_rate = 10 /\ cost_pct = 40 /\ tax_pct = 20
    /\ runs = 300 /\ auto_refresh = FALSE
    /\ session_state = [k \in {} |-> FALSE]
    /\ rng = 0
    /\ args \in GenArgs
    /\ rows = <<>> /\ draws = <<>> /\ df = <<>>
    /\ metrics = NoMetrics /\ error = "none" /\ gpc = "loop"
    /\ AppIdle

\* one iteration of "for _ in range(n_runs)" in which np.random.uniform
\* returns u1, then u2: two variates drawn, one row appended
TrialWith(u1, u2) ==
    /\ gpc = "loop"
    /\ Len(rows) < RangeLen(args.n_runs)
    /\ u1 \in Uniform(-args.gr, args.gr)
    /\ u2 \in CostWindow(args.cost_pct)
    /\ rows' = Append(rows, Row(args.base_sales, u1, u2, args.tax_pct))
    /\ draws' = Append(draws, [u1 |-> u1, u2 |-> u2])
    /\ rng' = RngAfter(rng, 2)
    /\ UNCHANGED <<args, df, metrics, error, gpc>>
    /\ UNCHANGED appVars

\* (faulty variant: the iteration also assigns the global runs)
TrialWritesGlobal ==
    /\ \E u1 \in Uniform(-args.gr, args.gr), u2 \in CostWindow(args.cost_pct) :
          TrialWith(u1, u2)
    /\ runs' = Len(rows')
    /\ UNCHANGED <<sales, growth_rate, cost_pct, tax_pct, auto_refresh, session_state>>
Trial ==
    /\ \E u1 \in Uniform(-args.gr, args.gr), u2 \in CostWindow(args.cost_pct) :
          TrialWith(u1, u2)
    /\ UNCHANGED globalVars

\* range exhausted: df = pd.DataFrame(rows, ...); return df
ReturnDf ==
    /\ gpc = "loop"
    /\ Len(rows) >= RangeLen(args.n_runs)
    /\ df' = rows
    /\ gpc' = "returned"
    /\ UNCHANGED globalVars
    /\ UNCHANGED <<rng, args, rows, draws, metrics, error>>
    /\ UNCHANGED appVars

\* metrics = {avg, max, min, std} of df["Profit"]
Summarize ==
    /\ gpc = "returned"
    /\ metrics' = Metrics(df)
    /\ gpc' = "summarized"
    /\ UNCHANGED globalVars
    /\ UNCHANGED <<rng, args, rows, draws, df, error>>
    /\ UNCHANGED appVars

NextGen == Trial \/ ReturnDf \/ Summarize

SpecGen == InitGen /\ [][NextGen]_vars

\* ------------------------------------------------ properties of SpecGen

\* simulate_df has returned (df is its result)
Returned == gpc \in {"returned", "summarized"}

\* rupees per stored unit of Revenue; stored units of Cost and of Profit
\* per rupee
RevenueRs == SalesUnit \div Scale
CostPerRs == (Scale * Scale) \div SalesUnit
ProfitPerRs == (Scale * Scale * Scale) \div SalesUnit

\* C1: for every n_runs = n >= 1 the DataFrame simulate_df returns has
\* exactly n rows, and its k-th row is the trial of the k-th pair of draws
\* (generation order).
C1_ExactlyNTrials ==
    (Returned /\ args.n_runs >= 1) =>
        /\ Len(df) = args.n_runs
        /\ Len(draws) = args.n_runs
        /\ \A k \in 1..Len(df) :
              df[k] = Row(args.base_sales, draws[k].u1, draws[k].u2, args.tax_pct)

C1_Witness ==
    /\ gpc = "returned" /\ args.n_runs = 2 /\ Len(df) = 2
    /\ draws[1].u1 < draws[2].u1
    /\ df[1].Revenue < df[2].Revenue

\* C2 (as claimed): a call with n_runs <= 0 fails with InvalidParameter and
\* returns no DataFrame.
C2_InvalidParameter ==
    (args.n_runs <= 0 /\ gpc # "loop") =>
        (error = "InvalidParameter" /\ ~Returned)

\* C3 (as claimed): the statistics of an empty DataFrame are not computed:
\* the call fails with EmptyInput.
C3_EmptyInput ==
    (gpc = "summarized" /\ Len(df) = 0) => error = "EmptyInput"

\* C4: every row returned satisfies
\* profit = (revenue - cost) * (1 - tax_pct) on its own stored values.
C4_ProfitFormula ==
    Returned =>
        \A k \in 1..Len(df) :
            df[k].Profit
                = (df[k].Revenue * Scale - df[k].Cost) * (Scale - args.tax_pct)

C4_Witness ==
    /\ gpc = "returned" /\ args.tax_pct = 20 /\ Len(df) = 2
    /\ df[1].Cost > 0 /\ df[1].Profit > 0 /\ df[1].Profit # df[2].Profit

\* C5: every row's revenue lies in
\* [base_sales * (1 - gr), base_sales * (1 + gr)]; with gr = 0 it equals
\* base_sales.
C5_RevenueRange ==
    Returned =>
        \A k \in 1..Len(df) :
            /\ df[k].Revenue >= args.base_sales * (Scale - args.gr)
            /\ df[k].Revenue <= args.base_sales * (Scale + args.gr)
            /\ args.gr = 0 => df[k].Revenue = args.base_sales * Scale

C5_Witness ==
    /\ gpc = "returned" /\ args.gr = 10 /\ Len(df) = 2
    /\ df[1].Revenue = args.base_sales * (Scale - args.gr)
    /\ df[2].Revenue = args.base_sales * (Scale + args.gr)

\* C6: every row's cost is its revenue times the ratio drawn, the ratio
\* lies in [cost_pct - 0.05, cost_pct + 0.05], and the lowest ratio of that
\* window can be drawn as it is, negative included (no clamping); for
\* base_sales = 500000, gr = 0, cost_pct = 0.40, tax_pct = 0.20 every row
\* has revenue 500000, cost in [175000, 225000] and profit in
\* [220000, 260000].
C6_CostWindow ==
    /\ \A k \in 1..Len(rows) :
          /\ rows[k].Cost = rows[k].Revenue * draws[k].u2
          /\ draws[k].u2 >= args.cost_pct - CostSpread
          /\ draws[k].u2 <= args.cost_pct + CostSpread
    /\ (gpc = "loop" /\ Len(rows) < args.n_runs) =>
          ENABLED TrialWith(-args.gr, args.cost_pct - CostSpread)
    /\ (Returned /\ args.base_sales * SalesUnit = 500000 /\ args.gr = 0
            /\ args.cost_pct = 40 /\ args.tax_pct = 20) =>
          \A k \in 1..Len(df) :
              /\ df[k].Revenue * RevenueRs = 500000
              /\ df[k].Cost >= 175000 * CostPerRs
              /\ df[k].Cost <= 225000 * CostPerRs
              /\ df[k].Profit >= 220000 * ProfitPerRs
              /\ df[k].Profit <= 260000 * ProfitPerRs

C6_Witness ==
    /\ gpc = "returned" /\ args.base_sales * SalesUnit = 500000 /\ args.gr = 0
    /\ args.cost_pct = 40 /\ args.tax_pct = 20 /\ Len(df) = 2
    /\ df[1].Cost = 175000 * CostPerRs /\ df[1].Profit = 260000 * ProfitPerRs
    /\ df[2].Cost = 225000 * CostPerRs /\ df[2].Profit = 220000 * ProfitPerRs

\* C7: the metrics of a DataFrame of exactly one row are
\* avg = max = min = that row's profit, and std is NaN.
C7_SingleTrialMetrics ==
    (gpc = "summarized" /\ Len(df) = 1) =>
        /\ ~metrics.avg.nan /\ metrics.avg.num = df[1].Profit * metrics.avg.den
        /\ metrics.max = Num(df[1].Profit, 1)
        /\ metrics.min = Num(df[1].Profit, 1)
        /\ metrics.std.nan

C7_Witness ==
    /\ gpc = "summarized" /\ Len(df) = 1 /\ df[1].Profit > 0
    /\ metrics.avg = Num(df[1].Profit, 1) /\ metrics.std.nan

\* C8 (as claimed): no step of a simulate_df call changes any state that
\* outlives the call: not the script's globals, not the session state, not
\* numpy's global generator.
C8_NoSharedState ==
    [][gpc = "loop" => UNCHANGED <<globalVars, appVars, rng>>]_vars

\* C8 (amended): a simulate_df call changes no state outside itself except
\* numpy's global generator, which every trial advances by two variates;
\* the script's globals and the session state are left alone, and every row
\* is a function of the call's arguments and its draws only.
C8_OnlyGeneratorShared ==
    /\ [][gpc = "loop" =>
            /\ UNCHANGED <<globalVars, appVars, args>>
            /\ \/ rng' = rng /\ rows' = rows
               \/ rng' = RngAfter(rng, 2) /\ Len(rows') = Len(rows) + 1]_vars
    /\ [](\A k \in 1..Len(rows) :
            rows[k] = Row(args.base_sales, draws[k].u1, draws[k].u2, args.tax_pct))

C8_Witness ==
    /\ gpc = "returned" /\ Len(df) = 2 /\ rng = RngAfter(0, 4) /\ rng # 0
    /\ sales # args.base_sales

\* =====================================================================
\* SpecApp: the script, one Streamlit execution after another
\* =====================================================================

Buttons == {"none", "start", "stop", "run"}

\* np.linspace(lo, hi, num): num evenly spaced points, both ends included
\* (faulty variant: endpoint=False)
LinspaceNoEndpoint(lo, hi, num) == [k \in 1..num |-> lo + ((k - 1) * (hi - lo)) \div num]
Linspace(lo, hi, num) == [k \in 1..num |-> lo + ((k - 1) * (hi - lo)) \div (num - 1)]

\* grs = np.linspace(0.05, 0.25, 5)
grs == Linspace(SweepLo, SweepHi, SweepNum)

\* one whole call simulate_df(base, g, c, t, n): the DataFrame it returns is
\* known here by the call's number, its arguments and its length
SimulateDf(id, base, g, c, t, n) ==
    [id |-> id, base_sales |-> base, gr |-> g, cost_pct |-> c, tax_pct |-> t,
     n_runs |-> n, len |-> RangeLen(n)]

\* the positions of the script inside "while not st.session_state.stop_flag"
LoopPcs == {"loop_test", "loop_body", "loop_sleep"}
\* the positions inside run_and_save_once
RunPcs == {"r_sim", "r_excel", "r_hist", "r_sweep", "r_pdf", "r_ret"}
\* the positions at which the script is inside a Streamlit call (or has
\* ended), where a new execution may replace it
StPoints == {"init", "start_btn", "stop_btn", "branch", "loop_body",
             "r_ret", "once_btn", "done"}

InitApp ==
    /\ sales \in SalesValues /\ growth_rate \in GrowthValues
    /\ cost_pct \in CostValues /\ tax_pct \in TaxValues
    /\ runs \in RunsValues /\ auto_refresh \in BOOLEAN
    /\ session_state = [k \in {} |-> FALSE]
    /\ rng = 0
    /\ pc = "init" /\ clicked = "none" /\ caller = "none"
    /\ calls = <<>> /\ df_sim = NoCall /\ avg_profits = <<>> /\ written = {}
    /\ GenIdle

\* if "stop_flag" not in st.session_state: st.session_state.stop_flag = False
DefaultStopFlag ==
    /\ pc = "init"
    /\ session_state' = IF "stop_flag" \in DOMAIN session_state
                          THEN session_state
                          ELSE [k \in {"stop_flag"} |-> FALSE]
    /\ pc' = "start_btn"
    /\ UNCHANGED <<sales, growth_rate, cost_pct, tax_pct, runs, auto_refresh>>
    /\ UNCHANGED <<rng, clicked, caller, calls, df_sim, avg_profits, written>>
    /\ UNCHANGED genVars

\* if st.button("Start Simulation"): st.session_state.stop_flag = False
StartButton ==
    /\ pc = "start_btn"
    /\ session_state' = IF clicked = "start"
                          THEN [session_state EXCEPT !["stop_flag"] = FALSE]
                          ELSE session_state
    /\ pc' = "stop_btn"
    /\ UNCHANGED <<sales, growth_rate, cost_pct, tax_pct, runs, auto_refresh>>
    /\ UNCHANGED <<rng, clicked, caller, calls, df_sim, avg_profits, written>>
    /\ UNCHANGED genVars

\* if st.button("Stop Simulation"): st.session_state.stop_flag = True
StopButton ==
    /\ pc = "stop_btn"
    /\ session_state' = IF clicked = "stop"
                          THEN [session_state EXCEPT !["stop_flag"] = TRUE]
                          ELSE session_state
    /\ pc' = "branch"
    /\ UNCHANGED <<sales, growth_rate, cost_pct, tax_pct, runs, auto_refresh>>
    /\ UNCHANGED <<rng, clicked, caller, calls, df_sim, avg_profits, written>>
    /\ UNCHANGED genVars

\* if auto_refresh and not st.session_state.stop_flag: ... else: ...
Branch ==
    /\ pc = "branch"
    /\ pc' = IF auto_refresh /\ ~StopFlag THEN "loop_test" ELSE "once_btn"
    /\ UNCHANGED globalVars
    /\ UNCHANGED <<rng, clicked, caller, calls, df_sim, avg_profits, written>>
    /\ UNCHANGED genVars

\* while not st.session_state.stop_flag:
LoopTest ==
    /\ pc = "loop_test"
    /\ pc' = IF ~StopFlag THEN "loop_body" ELSE "done"
    /\ UNCHANGED globalVars
    /\ UNCHANGED <<rng, clicked, caller, calls, df_sim, avg_profits, written>>
    /\ UNCHANGED genVars

\* the loop's body up to its call of run_and_save_once()
\* (faulty variant: the body also sets stop_flag)
LoopBodyWritesFlag ==
    /\ pc = "loop_body"
    /\ pc' = "r_sim"
    /\ caller' = "loop"
    /\ session_state' = [session_state EXCEPT !["stop_flag"] = TRUE]
    /\ UNCHANGED <<sales, growth_rate, cost_pct, tax_pct, runs, auto_refresh>>
    /\ UNCHANGED <<rng, clicked, calls, df_sim, avg_profits, written>>
    /\ UNCHANGED genVars
LoopBody ==
    /\ pc = "loop_body"
    /\ pc' = "r_sim"
    /\ caller' = "loop"
    /\ UNCHANGED globalVars
    /\ UNCHANGED <<rng, clicked, calls, df_sim, avg_profits, written>>
    /\ UNCHANGED genVars

\* time.sleep(refresh_seconds), then back to the loop's test
LoopSleep ==
    /\ pc = "loop_sleep"
    /\ pc' = "loop_test"
    /\ UNCHANGED globalVars
    /\ UNCHANGED <<rng, clicked, caller, calls, df_sim, avg_profits, written>>
    /\ UNCHANGED genVars

\* if st.button("Run Once (Save Outputs)"): run_and_save_once() ...
\* else: st.info(...)
RunOnceButton ==
    /\ pc = "once_btn"
    /\ IF clicked = "run"
         THEN pc' = "r_sim" /\ caller' = "once"
         ELSE pc' = "done" /\ caller' = caller
    /\ UNCHANGED globalVars
    /\ UNCHANGED <<rng, clicked, calls, df_sim, avg_profits, written>>
    /\ UNCHANGED genVars

\* run_and_save_once: df_sim = simulate_df(sales, growth_rate, cost_pct,
\* tax_pct, runs), its metrics and insights, the output paths
RunSimulate ==
    /\ pc = "r_sim"
    /\ LET c == SimulateDf(1, sales, growth_rate, cost_pct, tax_pct, runs)
       IN /\ calls' = <<c>>
          /\ df_sim' = c
          /\ rng' = RngAfter(rng, 2 * c.len)
    /\ avg_profits' = <<>>
    /\ written' = {}
    /\ pc' = "r_excel"
    /\ UNCHANGED globalVars
    /\ UNCHANGED <<clicked, caller>>
    /\ UNCHANGED genVars

\* save_excel_with_chart(df_sim, excel_path)
SaveExcel ==
    /\ pc = "r_excel"
    /\ written' = written \cup {"xlsx"}
    /\ pc' = "r_hist"
    /\ UNCHANGED globalVars
    /\ UNCHANGED <<rng, clicked, caller, calls, df_sim, avg_profits>>
    /\ UNCHANGED genVars

\* save_chart_images: the histogram of df["Profit"]
SaveHistogram ==
    /\ pc = "r_hist"
    /\ written' = written \cup {"hist"}
    /\ pc' = "r_sweep"
    /\ UNCHANGED globalVars
    /\ UNCHANGED <<rng, clicked, caller, calls, df_sim, avg_profits>>
    /\ UNCHANGED genVars

\* save_chart_images: one element of
\* [simulate_df(sales, g, cost_pct, tax_pct, 200)["Profit"].mean() for g in grs]
SweepCall ==
    /\ pc = "r_sweep"
    /\ Len(avg_profits) < Len(grs)
    /\ LET g == grs[Len(avg_profits) + 1]
           c == SimulateDf(Len(calls) + 1, sales, g, cost_pct, tax_pct, SweepRuns)
       IN /\ calls' = Append(calls, c)
          /\ avg_profits' = Append(avg_profits, [rate |-> g, mean_of |-> c.id])
          /\ rng' = RngAfter(rng, 2 * c.len)
    /\ UNCHANGED globalVars
    /\ UNCHANGED <<pc, clicked, caller, df_sim, written>>
    /\ UNCHANGED genVars

\* save_chart_images: the list is complete; the sensitivity chart is saved
SaveSensitivity ==
    /\ pc = "r_sweep"
    /\ Len(avg_profits) >= Len(grs)
    /\ written' = written \cup {"sens"}
    /\ pc' = "r_pdf"
    /\ UNCHANGED globalVars
    /\ UNCHANGED <<rng, clicked, caller, calls, df_sim, avg_profits>>
    /\ UNCHANGED genVars

\* create_pdf_2page(...)
CreatePdf ==
    /\ pc = "r_pdf"
    /\ written' = written \cup {"pdf"}
    /\ pc' = "r_ret"
    /\ UNCHANGED globalVars
    /\ UNCHANGED <<rng, clicked, caller, calls, df_sim, avg_profits>>
    /\ UNCHANGED genVars

\* run_and_save_once returns; its caller shows the images (and, in the
\* loop, goes on to time.sleep)
RunReturn ==
    /\ pc = "r_ret"
    /\ pc' = IF caller = "loop" THEN "loop_sleep" ELSE "done"
    /\ UNCHANGED globalVars
    /\ UNCHANGED <<rng, clicked, caller, calls, df_sim, avg_profits, written>>
    /\ UNCHANGED genVars

\* the user changes a widget or clicks a button: Streamlit ends the current
\* execution at its next Streamlit call and runs the script again from the
\* top, with the session state kept
Rerun ==
    /\ pc \in StPoints
    /\ \E b \in Buttons, s \in SalesValues, g \in GrowthValues, c \in CostValues,
          t \in TaxValues, r \in RunsValues, a \in BOOLEAN :
          /\ b # "none" =>
                <<s, g, c, t, r, a>> = <<sales, growth_rate, cost_pct, tax_pct, runs, auto_refresh>>
          /\ clicked' = b
          /\ sales' = s /\ growth_rate' = g /\ cost_pct' = c /\ tax_pct' = t
          /\ runs' = r /\ auto_refresh' = a
    /\ pc' = "init"
    /\ caller' = "none"
    /\ calls' = <<>> /\ df_sim' = NoCall /\ avg_profits' = <<>> /\ written' = {}
    /\ UNCHANGED <<session_state, rng>>
    /\ UNCHANGED genVars

\* the steps of the script itself
ScriptStep ==
    \/ DefaultStopFlag \/ StartButton \/ StopButton \/ Branch
    \/ LoopTest \/ LoopBody \/ LoopSleep \/ RunOnceButton
    \/ RunSimulate \/ SaveExcel \/ SaveHistogram \/ SweepCall
    \/ SaveSensitivity \/ CreatePdf \/ RunReturn

NextApp == ScriptStep \/ Rerun

\* the script thread keeps running: no step of it waits on anything
SpecApp == InitApp /\ [][NextApp]_vars /\ WF_vars(ScriptStep)

\* ------------------------------------------------ properties of SpecApp

\* the script is inside the auto-refresh loop (its test, its body, the
\* run_and_save_once the body called, or its sleep)
InLoop == pc \in LoopPcs \/ (pc \in RunPcs /\ caller = "loop")

\* C9: within one run_and_save_once the sensitivity sweep calls simulate_df
\* once for each of the growth rates 0.05, 0.10, 0.15, 0.20, 0.25, in that
\* order, each time with 200 runs and with the sales, cost_pct and tax_pct of
\* the main run; it yields exactly 5 (rate, mean) pairs, each the mean of
\* its own call's result and never of the main run's df_sim.
C9_SensitivitySweep ==
    /\ Len(avg_profits) <= 5
    /\ (pc \in RunPcs \ {"r_sim"}) =>
          /\ Len(calls) = 1 + Len(avg_profits)
          /\ calls[1] = df_sim
          /\ df_sim = [id |-> 1, base_sales |-> sales, gr |-> growth_rate,
                       cost_pct |-> cost_pct, tax_pct |-> tax_pct,
                       n_runs |-> runs, len |-> runs]
    /\ \A k \in 1..Len(avg_profits) :
          /\ avg_profits[k].rate = 5 * k
          /\ calls[k + 1] = [id |-> k + 1, base_sales |-> sales, gr |-> 5 * k,
                             cost_pct |-> cost_pct, tax_pct |-> tax_pct,
                             n_runs |-> 200, len |-> 200]
          /\ avg_profits[k].mean_of = calls[k + 1].id
          /\ avg_profits[k].mean_of # df_sim.id
    /\ "sens" \in written => Len(avg_profits) = 5

C9_Witness ==
    /\ pc = "r_ret" /\ "sens" \in written
    /\ Len(avg_profits) = 5 /\ Len(calls) = 6
    /\ avg_profits[5].rate = 25
    /\ growth_rate = 0 /\ runs = 50

\* the rest of C10, which does not depend on who created stop_flag: nothing
\* inside the loop writes it; once an execution is in the loop, auto_refresh
\* is on and stop_flag is False and stays so, the execution never leaves the
\* loop (only a new execution replaces it), and run_and_save_once and the
\* sleep come again and again; with stop_flag True at the branch the loop is
\* not entered and never calls run_and_save_once.
LoopNeverStops ==
    /\ [][InLoop => session_state' = session_state]_vars
    /\ [](InLoop => (auto_refresh /\ ~StopFlag))
    /\ [][InLoop => (InLoop' \/ pc' = "init")]_vars
    /\ [][(pc = "branch" /\ StopFlag) => ~InLoop']_vars
    /\ [](caller = "loop" => ~StopFlag)
    /\ (pc = "loop_test") ~> (pc = "r_sim" \/ pc = "init")
    /\ (pc = "r_sim" /\ caller = "loop") ~> (pc = "loop_sleep" \/ pc = "init")
    /\ (pc = "loop_sleep") ~> (pc = "loop_test" \/ pc = "init")

\* C10 (as claimed): stop_flag is written only by the Start button (False)
\* and the Stop button (True), both before the auto-refresh loop, and the
\* loop, once entered, never stops.
C10_OnlyButtonsWrite ==
    /\ [][session_state' # session_state =>
            \/ /\ pc = "start_btn" /\ clicked = "start"
               /\ session_state' = [k \in {"stop_flag"} |-> FALSE]
            \/ /\ pc = "stop_btn" /\ clicked = "stop"
               /\ session_state' = [k \in {"stop_flag"} |-> TRUE]]_vars
    /\ LoopNeverStops

\* C10 (amended): stop_flag is written only by the session-state default
\* (False, when the session has no stop_flag yet), the Start button (False)
\* and the Stop button (True), all before the auto-refresh loop, and the
\* loop, once entered, never stops.
C10_StopFlagLoop ==
    /\ [][session_state' # session_state =>
            \/ /\ pc = "init" /\ "stop_flag" \notin DOMAIN session_state
               /\ session_state' = [k \in {"stop_flag"} |-> FALSE]
            \/ /\ pc = "start_btn" /\ clicked = "start"
               /\ session_state' = [k \in {"stop_flag"} |-> FALSE]
            \/ /\ pc = "stop_btn" /\ clicked = "stop"
               /\ session_state' = [k \in {"stop_flag"} |-> TRUE]]_vars
    /\ LoopNeverStops

C10_Witness ==
    /\ pc = "loop_sleep" /\ caller = "loop" /\ auto_refresh /\ ~StopFlag
    /\ clicked = "start" /\ "pdf" \in written

====
